---- MODULE Spec2Model ----
(***************************************************************************)
(* A model of the RDP man-in-the-middle client (rdpy/mitm/client.py), of   *)
(* the legacy RDP security layer (rdpy/protocol/rdp/sec.py) and of the Qt  *)
(* display widget (rdpy/display/qt.py).                                    *)
(***************************************************************************)
EXTENDS Integers, Sequences, FiniteSets, Bags, TLC

(***************************************************************************)
(* Bounds of the model.                                                    *)
(***************************************************************************)
\* the victim declares at most this many virtual channels
MaxChannels == 1
\* at most this many SendData PDUs are relayed in a session
MaxData == 1
\* at most this many licensing PDUs are sent by the target
MaxLicense == 1
\* at most this many PDUs pass through a security layer, in and out
MaxPdu == 4
\* at most this many images are notified to the display widget
MaxImages == 3
\* at most this many paint events reach the display widget
MaxPaints == 3
\* at most this many times the target confirms again a join it has confirmed
MaxRejoins == 1

(***************************************************************************)
(* Part II, state: the security layers of rdpy/protocol/rdp/sec.py.        *)
(***************************************************************************)
VARIABLES
    roles,     \* the security layers in use: "client" (sec.Client), "server"
    sec,       \* role -> the SecLayer object: its fields, what it has passed
               \* to its transport (sent) and to its presentation layer
               \* (delivered), and the exceptions raised out of it (errors)
    connected, \* the roles whose connect() has been called
    peer,      \* the remote end of the "client" layer: a security layer with
               \* the matching keys, how many PDUs of sec.sent it has read
               \* and what it read out of the encrypted ones
    plainSent, \* the payloads the "client" layer has encrypted, in order
    last,      \* the last operation on a layer: the operation, its input
               \* and the layer before it
    nPdu       \* PDUs received and sent by the layers so far

secVars == <<roles, sec, connected, peer, plainSent, last, nPdu>>

(***************************************************************************)
(* Part I: MITMClient (rdpy/mitm/client.py).                               *)
(***************************************************************************)
VARIABLES
    client,       \* the MITMClient object: its fields, the calls it has made
                  \* on its collaborators (events) and the exceptions raised
                  \* out of its handlers (errors)
    phase,        \* progress of the target-facing handshake
    selected,     \* what the Negotiation Response selected
    joinSent,     \* channel ids the victim has asked to join, in order
    joinPending,  \* join requests the target has not answered yet
    channels,     \* the MCS user's channels: ids with a binding
    tcp,          \* the target transport: open, closing or closed
    nData,        \* SendData PDUs relayed so far
    nLicense      \* licensing PDUs received so far

mitmVars == <<client, phase, selected, joinSent, joinPending, channels,
              tcp, nData, nLicense>>

(***************************************************************************)
(* A long exchange under one pair of keys: a keyed layer (writer) encrypts *)
(* packet after packet for its remote end (reader), one packet on the wire *)
(* at a time.                                                              *)
(***************************************************************************)
VARIABLES
    link,      \* a sec.py Client and a sec.py Server layer back to back:
               \* how many PDUs of each layer's output the other has been
               \* handed
    qt,        \* the QRemoteDesktop widget: its refresh list, whether an
               \* update is asked for, and what it has drawn, paint event
               \* by paint event
    stream     \* the two layers, the packet on the wire, and how many
               \* packets each direction has processed since its RC4 key
               \* was last set

\* the MCS channel id of the I/O channel; virtual channels follow it
IOChannelID == 1003
\* the id the target assigns to the attached user
UserID == 1002
\* VirtualChannel.CLIPBOARD
CLIPBOARD == "cliprdr"
\* the failure code of an RDP Negotiation Failure
SSL_REQUIRED_BY_SERVER == 1
ChannelNames == {CLIPBOARD, "rdpsnd"}
\* the encryption methods a server may select (0: none)
EncryptionMethods == {0, 1}

Ev(op, arg) == [op |-> op, arg |-> arg]

Put(f, k, v) == [x \in DOMAIN f \cup {k} |-> IF x = k THEN v ELSE f[x]]

Range(s) == {s[i] : i \in 1..Len(s)}

\* the sequences over S of length at most n
RECURSIVE SeqsUpTo(_, _)
SeqsUpTo(S, n) ==
    IF n = 0 THEN {<<>>}
    ELSE LET shorter == SeqsUpTo(S, n - 1)
         IN shorter \cup
            {Append(s, x) : s \in {t \in shorter : Len(t) = n - 1},
                            x \in S}

\* the virtual channel ids of a server NETWORK block with n channels
NetworkChannels(n) == [i \in 1..n |-> IOChannelID + i]

NoServerData == [present |-> FALSE, encryptionMethod |-> 0,
                 mcsChannelID |-> 0, channels |-> <<>>]
NoSecurityLayer == [kind |-> "None", securityHeaderExpected |-> "unset",
                    encryptionMethod |-> 0]
NoFastPathLayer == [present |-> FALSE, useTLS |-> FALSE, encryptionMethod |-> 0]

\* MITMClient.__init__
NewClient ==
    [useTLS |-> FALSE,
     channelMap |-> <<>>,
     channelDefinitions |-> <<>>,
     channelObservers |-> <<>>,
     clipboardObserver |-> FALSE,
     user |-> FALSE,
     fastPathObserver |-> FALSE,
     serverData |-> NoServerData,
     securityLayer |-> NoSecurityLayer,
     fastPathLayer |-> NoFastPathLayer,
     ioObservers |-> 0,
     events |-> <<>>,
     errors |-> <<>>]

\* a call made on a collaborator
Call(self, op, arg) == [self EXCEPT !.events = Append(@, Ev(op, arg))]
\* an exception raised out of a handler
Raise(self, what) == [self EXCEPT !.errors = Append(@, what)]

\* MITMClient.startConnection
startConnection(self) == Call(self, "x224.sendConnectionRequest", 0)

\* MITMClient.disconnect
disconnect(self) == Call(self, "tcp.disconnect", 0)

\* MITMClient.onDisconnection
onDisconnectionSilent(self) == self

onDisconnection(self) == Call(self, "server.disconnect", 0)

\* MITMClient.onDisconnectRequest
onDisconnectRequest(self) == disconnect(self)

\* MITMClient.onUnknownTPKTHeader
onUnknownTPKTHeaderIgnore(self) == self

onUnknownTPKTHeader(self) == disconnect(self)

\* onConnectionConfirm with its two steps swapped: the ConnectionConfirm is
\* handed on before the transport is upgraded
onConnectionConfirmForwardFirst(self, tlsSelected) ==
    LET s1 == Call(self, "server.onConnectionConfirm", 0)
    IN IF tlsSelected
       THEN [Call(s1, "tcp.startTLS", 0) EXCEPT !.useTLS = TRUE]
       ELSE s1

\* MITMClient.onConnectionConfirm; tlsSelected is response.tlsSelected
onConnectionConfirm(self, tlsSelected) ==
    LET s1 == IF tlsSelected
              THEN [Call(self, "tcp.startTLS", 0) EXCEPT !.useTLS = TRUE]
              ELSE self
    IN Call(s1, "server.onConnectionConfirm", 0)

\* MITMClient.onConnectInitial; definitions is clientData.networkData's
\* channelDefinitions, hasNetworkData whether clientData.networkData is set
onConnectInitial(self, hasNetworkData, definitions) ==
    LET s1 == IF hasNetworkData
              THEN [self EXCEPT !.channelDefinitions = definitions]
              ELSE self
    IN Call(s1, "rdpConnect.send", 0)

\* the loop of MITMClient.onServerData from index i on; it raises IndexError
\* at a channel that has no channel definition
RECURSIVE mapChannels(_, _, _)
mapChannels(self, chans, i) ==
    IF i > Len(chans) THEN self
    ELSE IF i > Len(self.channelDefinitions) THEN Raise(self, "IndexError")
    ELSE mapChannels([self EXCEPT !.channelMap =
                         Put(@, chans[i], self.channelDefinitions[i])],
                     chans, i + 1)

\* onServerData keeping the server data without filling the channel map
onServerDataNoMap(self, data) == [self EXCEPT !.serverData = data]

\* onServerData mapping every channel of the NETWORK block to "I/O"
onServerDataAllIO(self, data) ==
    LET s1 == [self EXCEPT !.serverData = data]
        s2 == [s1 EXCEPT !.channelMap = Put(@, data.mcsChannelID, "I/O")]
    IN [s2 EXCEPT !.channelMap =
           [c \in DOMAIN @ \cup Range(data.channels) |->
               IF c \in Range(data.channels) THEN "I/O" ELSE @[c]]]

\* MITMClient.onServerData
onServerData(self, data) ==
    LET s1 == [self EXCEPT !.serverData = data]
        s2 == [s1 EXCEPT !.channelMap = Put(@, data.mcsChannelID, "I/O")]
    IN mapChannels(s2, data.channels, 1)

\* onConnectResponse forwarding a successful response before it is decoded
onConnectResponseForwardFirst(self, result, data) ==
    IF result # 0
    THEN Call(self, "server.onConnectResponse(None)", result)
    ELSE onServerData(Call(self, "server.onConnectResponse(None)", result),
                      data)

\* MITMClient.onConnectResponse; on success the connection layers decode the
\* GCC blocks of the response and call onServerData
onConnectResponse(self, result, data) ==
    IF result # 0
    THEN Call(self, "server.onConnectResponse(None)", result)
    ELSE LET s1 == onServerData(self, data)
         IN IF Len(s1.errors) > Len(self.errors) THEN s1
            ELSE Call(s1, "server.onConnectResponse(serverData)", result)

\* MITMClient.onAttachUserRequest
onAttachUserRequest(self) ==
    Call([self EXCEPT !.user = TRUE], "user.attach", 0)

\* MITMClient.onAttachConfirmed
onAttachConfirmed(self) == Call(self, "server.onAttachConfirmed", UserID)

\* MITMClient.onAttachRefused
onAttachRefused(self, result) == Call(self, "server.onAttachRefused", result)

\* onChannelJoinRequest asking for the next channel as well, without waiting
\* for the answer
onChannelJoinRequestAhead(self, channelID) ==
    Call(Call(self, "mcs.send(ChannelJoinRequest)", channelID),
         "mcs.send(ChannelJoinRequest)", channelID + 1)

\* onChannelJoinRequest asking for the channel after the one it was handed
onChannelJoinRequestNext(self, channelID) ==
    Call(self, "mcs.send(ChannelJoinRequest)", channelID + 1)

\* onChannelJoinRequest sending the request twice
onChannelJoinRequestTwice(self, channelID) ==
    Call(Call(self, "mcs.send(ChannelJoinRequest)", channelID),
         "mcs.send(ChannelJoinRequest)", channelID)

\* MITMClient.onChannelJoinRequest
onChannelJoinRequest(self, channelID) ==
    Call(self, "mcs.send(ChannelJoinRequest)", channelID)

\* MITMClient.createSecurityLayer
createSecurityLayer(self) ==
    IF self.useTLS
    THEN [kind |-> "TLS", securityHeaderExpected |-> "unset",
          encryptionMethod |-> 0]
    ELSE [kind |-> "RDP", securityHeaderExpected |-> "unset",
          encryptionMethod |-> self.serverData.encryptionMethod]

\* MITMClient.buildVirtualChannel
buildVirtualChannel(self, channelID) ==
    IF ~self.serverData.present THEN Raise(self, "AttributeError")
    ELSE [self EXCEPT !.channelObservers = Put(@, channelID, "virtual")]

\* MITMClient.buildClipboardChannel
buildClipboardChannel(self, channelID) ==
    IF ~self.serverData.present THEN Raise(self, "AttributeError")
    ELSE [self EXCEPT !.clipboardObserver = TRUE,
                      !.channelObservers = Put(@, channelID, "clipboard")]

\* MITMClient.buildIOChannel
buildIOChannel(self, channelID) ==
    LET encryptionMethod == self.serverData.encryptionMethod
        s1 == [self EXCEPT
                 !.securityLayer = createSecurityLayer(self),
                 !.ioObservers = @ + 1,
                 !.channelObservers = Put(@, channelID, "slowPath"),
                 !.fastPathLayer = [present |-> TRUE, useTLS |-> self.useTLS,
                                    encryptionMethod |-> encryptionMethod],
                 !.fastPathObserver = TRUE]
    IN IF ~self.serverData.present THEN Raise(self, "AttributeError")
       ELSE IF self.useTLS
       THEN [s1 EXCEPT !.securityLayer.securityHeaderExpected = "True"]
       ELSE IF encryptionMethod # 0
       THEN Call(s1, "securityLayer.sendSecurityExchange", 0)
       ELSE s1

\* MITMClient.buildChannel
buildChannel(self, channelID) ==
    LET channelName == IF channelID \in DOMAIN self.channelMap
                       THEN self.channelMap[channelID] ELSE "None"
        s1 == IF channelName = "I/O"
              THEN buildIOChannel(self, channelID)
              ELSE IF channelName = CLIPBOARD
              THEN buildClipboardChannel(self, channelID)
              ELSE buildVirtualChannel(self, channelID)
    IN IF Len(s1.errors) > Len(self.errors) THEN s1
       ELSE Call(s1, "server.onChannelJoinAccepted", channelID)

\* onChannelJoinRefused closing the session after reporting the refusal
onChannelJoinRefusedAbort(self, result, channelID) ==
    disconnect(Call(self, "server.onChannelJoinRefused", channelID))

\* MITMClient.onChannelJoinRefused
onChannelJoinRefused(self, result, channelID) ==
    Call(self, "server.onChannelJoinRefused", channelID)

\* onClientInfoPDUReceived handing the Client Info to the MCS layer before it
\* looks for the security layer
onClientInfoPDUReceivedSendFirst(self) ==
    IF self.securityLayer.kind = "None"
    THEN Raise(Call(self, "securityLayer.sendClientInfo", 0),
               "AttributeError")
    ELSE Call(self, "securityLayer.sendClientInfo", 0)

\* MITMClient.onClientInfoPDUReceived
onClientInfoPDUReceived(self) ==
    IF self.securityLayer.kind = "None"
    THEN Raise(self, "AttributeError")
    ELSE Call(self, "securityLayer.sendClientInfo", 0)

\* onLicensingDataReceived leaving securityHeaderExpected as it is
onLicensingDataReceivedKeep(self) ==
    Call(self, "server.onLicensingDataReceived", 0)

\* MITMClient.onLicensingDataReceived
onLicensingDataReceived(self) ==
    LET s1 == IF self.useTLS
              THEN [self EXCEPT !.securityLayer.securityHeaderExpected = "False"]
              ELSE self
    IN Call(s1, "server.onLicensingDataReceived", 0)

\* MITMClient.onDisconnectProviderUltimatum
onDisconnectProviderUltimatum(self) ==
    Call(self, "server.sendDisconnectProviderUltimatum", 0)

\* MITMClient.getChannelObserver: the observer kind, or KeyError
getChannelObserver(self, channelID) ==
    IF channelID \in DOMAIN self.channelObservers
    THEN self.channelObservers[channelID] ELSE "KeyError"

(***************************************************************************)
(* The peers of MITMClient: the target server behind the X.224/MCS layers  *)
(* and the victim behind the victim-facing MITMServer. Both follow the     *)
(* handshake of the connection state machine; what they choose (TLS, the   *)
(* encryption method, the channels, confirming or refusing, when to        *)
(* disconnect) is free.                                                    *)
(***************************************************************************)
\* something received from a peer, recorded before the handler runs
Recv(self, op, arg) == Call(self, op, arg)

\* the events new makes beyond those of old
NewEvents(old, new) ==
    SubSeq(new.events, Len(old.events) + 1, Len(new.events))

Raised(old, new) == Len(new.errors) > Len(old.errors)

RECURSIVE ArgsOf(_, _)
ArgsOf(es, op) ==
    IF es = <<>> THEN <<>>
    ELSE IF Head(es).op = op THEN <<Head(es).arg>> \o ArgsOf(Tail(es), op)
    ELSE ArgsOf(Tail(es), op)

\* the channel ids the victim learns from the server data: I/O and NETWORK
ToJoin == IF client.serverData.present
          THEN {client.serverData.mcsChannelID}
               \cup Range(client.serverData.channels)
          ELSE {}

\* the target still talks: its transport is open and it has not sent a
\* Disconnect Provider Ultimatum
Live == tcp = "open" /\ phase # "Ended"

\* the effect of a handler on the transport: tcp.disconnect() closes it
TcpAfter(old, new) ==
    IF \E i \in 1..Len(NewEvents(old, new)) :
          NewEvents(old, new)[i].op = "tcp.disconnect"
    THEN "closing" ELSE tcp

otherVars == <<secVars, stream, qt, link>>

TcpConnected ==
    /\ Live /\ phase = "Idle"
    /\ client' = startConnection(client)
    /\ phase' = "AwaitConfirm"
    /\ UNCHANGED <<selected, joinSent, joinPending, channels, tcp, nData,
                   nLicense, otherVars>>

TargetConnectionConfirm ==
    /\ Live /\ phase = "AwaitConfirm"
    /\ \E tlsSelected \in BOOLEAN :
          /\ client' = onConnectionConfirm(
                           Recv(client, "x224.recv(ConnectionConfirm)", 0),
                           tlsSelected)
          /\ selected' = IF tlsSelected THEN "tls" ELSE "plain"
    /\ phase' = "AwaitConnectInitial"
    /\ UNCHANGED <<joinSent, joinPending, channels, tcp, nData, nLicense,
                   otherVars>>

\* a ConnectionConfirm that carries an RDP Negotiation Failure: no protocol
\* is selected, so response.tlsSelected is false
TargetNegotiationFailure ==
    /\ Live /\ phase = "AwaitConfirm"
    /\ client' = onConnectionConfirm(
                     Recv(client, "x224.recv(ConnectionConfirm)",
                          SSL_REQUIRED_BY_SERVER),
                     FALSE)
    /\ selected' = "plain"
    /\ phase' = "NegotiationFailed"
    /\ UNCHANGED <<joinSent, joinPending, channels, tcp, nData, nLicense,
                   otherVars>>

\* the victim's Connect Initial; the victim-facing side was handed the
\* ConnectionConfirm and goes on, and a target that refused the negotiation
\* answers nothing more
VictimConnectInitial ==
    /\ Live /\ phase \in {"AwaitConnectInitial", "NegotiationFailed"}
    /\ \E hasNetworkData \in BOOLEAN :
       \E definitions \in (IF hasNetworkData
                           THEN SeqsUpTo(ChannelNames, MaxChannels)
                           ELSE {<<>>}) :
          client' = onConnectInitial(client, hasNetworkData, definitions)
    /\ phase' = IF phase = "NegotiationFailed"
                THEN "Failed" ELSE "AwaitConnectResp"
    /\ UNCHANGED <<selected, joinSent, joinPending, channels, tcp, nData,
                   nLicense, otherVars>>

TargetConnectResponse ==
    /\ Live /\ phase = "AwaitConnectResp"
    /\ \E result \in {0, 1}, method \in EncryptionMethods :
          LET data == [present |-> TRUE, encryptionMethod |-> method,
                       mcsChannelID |-> IOChannelID,
                       channels |->
                          NetworkChannels(Len(client.channelDefinitions))]
              new == onConnectResponse(
                         Recv(client, "mcs.recv(ConnectResponse)", result),
                         result, data)
          IN /\ client' = new
             /\ phase' = IF result = 0 /\ ~Raised(client, new)
                         THEN "AttachUser" ELSE "Failed"
    /\ UNCHANGED <<selected, joinSent, joinPending, channels, tcp, nData,
                   nLicense, otherVars>>

VictimAttachUserRequest ==
    /\ Live /\ phase = "AttachUser"
    /\ client' = onAttachUserRequest(client)
    /\ phase' = "AwaitAttach"
    /\ UNCHANGED <<selected, joinSent, joinPending, channels, tcp, nData,
                   nLicense, otherVars>>

TargetAttachConfirm ==
    /\ Live /\ phase = "AwaitAttach"
    /\ client' = onAttachConfirmed(
                     Recv(client, "mcs.recv(AttachUserConfirm)", 0))
    /\ phase' = "JoinChannels"
    /\ UNCHANGED <<selected, joinSent, joinPending, channels, tcp, nData,
                   nLicense, otherVars>>

TargetAttachRefused ==
    /\ Live /\ phase = "AwaitAttach"
    /\ client' = onAttachRefused(
                     Recv(client, "mcs.recv(AttachUserConfirm)", 1), 1)
    /\ phase' = "Failed"
    /\ UNCHANGED <<selected, joinSent, joinPending, channels, tcp, nData,
                   nLicense, otherVars>>

\* the victim joins each channel once, the I/O channel first, and waits for
\* the answer before it asks for the next
VictimChannelJoinRequest ==
    /\ Live /\ phase = "JoinChannels" /\ joinPending = <<>>
    /\ \E channelID \in ToJoin \ Range(joinSent) :
          /\ channelID = IOChannelID \/ IOChannelID \in Range(joinSent)
          /\ LET new == onChannelJoinRequest(client, channelID)
             IN /\ client' = new
                /\ joinPending' = joinPending \o
                      ArgsOf(NewEvents(client, new),
                             "mcs.send(ChannelJoinRequest)")
          /\ joinSent' = Append(joinSent, channelID)
    /\ UNCHANGED <<phase, selected, channels, tcp, nData, nLicense,
                   otherVars>>

\* MCSClientRouter and MCSUser: a confirmed join builds the channel with the
\* channel factory and keeps it
TargetChannelJoinConfirm ==
    /\ Live /\ joinPending # <<>>
    /\ LET channelID == Head(joinPending)
           new == buildChannel(
                      Recv(client, "mcs.recv(ChannelJoinConfirm)", channelID),
                      channelID)
       IN /\ client' = new
          /\ channels' = IF Raised(client, new) THEN channels
                         ELSE channels \cup {channelID}
    /\ joinPending' = Tail(joinPending)
    /\ UNCHANGED <<phase, selected, joinSent, tcp, nData, nLicense,
                   otherVars>>

\* the target confirms once more a join it has already confirmed; MCSUser
\* builds the channel with the channel factory again and replaces the one it
\* kept
TargetChannelJoinConfirmAgain ==
    /\ Live
    /\ \E channelID \in channels :
          /\ Cardinality({i \in 1..Len(client.events) :
                 client.events[i] =
                    Ev("mcs.recv(ChannelJoinConfirm)", channelID)})
                < 1 + MaxRejoins
          /\ client' = buildChannel(
                           Recv(client, "mcs.recv(ChannelJoinConfirm)",
                                channelID),
                           channelID)
    /\ UNCHANGED <<phase, selected, joinSent, joinPending, channels, tcp,
                   nData, nLicense, otherVars>>

TargetChannelJoinRefused ==
    /\ Live /\ joinPending # <<>>
    /\ LET channelID == Head(joinPending)
           new == onChannelJoinRefused(
                      Recv(client, "mcs.recv(ChannelJoinRefused)", channelID),
                      1, channelID)
       IN client' = new /\ tcp' = TcpAfter(client, new)
    /\ joinPending' = Tail(joinPending)
    /\ UNCHANGED <<phase, selected, joinSent, channels, nData, nLicense,
                   otherVars>>

\* the victim sends its Client Info once every join has been answered
VictimClientInfo ==
    /\ Live /\ phase = "JoinChannels" /\ joinPending = <<>>
    /\ ToJoin \subseteq Range(joinSent)
    /\ LET new == onClientInfoPDUReceived(client)
       IN /\ client' = new
          /\ phase' = IF Raised(client, new) THEN "Failed" ELSE "AwaitLicense"
    /\ UNCHANGED <<selected, joinSent, joinPending, channels, tcp, nData,
                   nLicense, otherVars>>

\* the security layer of the I/O channel reports licensing data
TargetLicensingData ==
    /\ Live /\ phase = "AwaitLicense" /\ nLicense < MaxLicense
    /\ client.securityLayer.kind # "None"
    /\ client' = onLicensingDataReceived(
                     Recv(client, "security.recv(LicensingData)", 0))
    /\ nLicense' = nLicense + 1
    /\ \E complete \in BOOLEAN :
          phase' = IF complete THEN "Active" ELSE phase
    /\ UNCHANGED <<selected, joinSent, joinPending, channels, tcp, nData,
                   otherVars>>

\* the target sends data on a channel; the router hands it to the binding
TargetSendData ==
    /\ Live /\ phase \in {"AwaitLicense", "Active"} /\ nData < MaxData
    /\ \E channelID \in channels :
          client' = Call(client, "channel.recv(SendData)", channelID)
    /\ nData' = nData + 1
    /\ UNCHANGED <<phase, selected, joinSent, joinPending, channels, tcp,
                   nLicense, otherVars>>

\* the victim sends data on a channel it asked for; the victim-facing side
\* looks the channel's observer up and sends through it
VictimSendData ==
    /\ Live /\ phase = "Active" /\ nData < MaxData
    /\ \E channelID \in Range(joinSent) :
          client' = IF getChannelObserver(client, channelID) = "KeyError"
                    THEN Raise(client, "KeyError")
                    ELSE Call(client, "mcs.send(SendData)", channelID)
    /\ nData' = nData + 1
    /\ UNCHANGED <<phase, selected, joinSent, joinPending, channels, tcp,
                   nLicense, otherVars>>

\* the target transport goes down
ConnectionLost ==
    /\ tcp \in {"open", "closing"} /\ phase # "Idle"
    /\ client' = onDisconnection(Recv(client, "tcp.connectionLost", 0))
    /\ tcp' = "closed"
    /\ phase' = "Closed"
    /\ UNCHANGED <<selected, joinSent, joinPending, channels, nData,
                   nLicense, otherVars>>

TargetDisconnectRequest ==
    /\ Live /\ phase # "Idle"
    /\ LET new == onDisconnectRequest(
                      Recv(client, "x224.recv(DisconnectRequest)", 0))
       IN client' = new /\ tcp' = TcpAfter(client, new)
    /\ UNCHANGED <<phase, selected, joinSent, joinPending, channels, nData,
                   nLicense, otherVars>>

TargetUnknownHeader ==
    /\ Live /\ phase # "Idle"
    /\ LET new == onUnknownTPKTHeader(
                      Recv(client, "segmentation.recv(UnknownHeader)", 0))
       IN client' = new /\ tcp' = TcpAfter(client, new)
    /\ UNCHANGED <<phase, selected, joinSent, joinPending, channels, nData,
                   nLicense, otherVars>>

TargetDisconnectProviderUltimatum ==
    /\ Live /\ phase \in {"AttachUser", "AwaitAttach", "JoinChannels",
                          "AwaitLicense", "Active"}
    /\ client' = onDisconnectProviderUltimatum(
                     Recv(client, "mcs.recv(DisconnectProviderUltimatum)", 0))
    /\ phase' = "Ended"
    /\ UNCHANGED <<selected, joinSent, joinPending, channels, tcp, nData,
                   nLicense, otherVars>>

\* the victim-facing side asks the client to disconnect
VictimDisconnect ==
    /\ Live /\ phase # "Idle"
    /\ LET new == disconnect(client)
       IN client' = new /\ tcp' = TcpAfter(client, new)
    /\ UNCHANGED <<phase, selected, joinSent, joinPending, channels, nData,
                   nLicense, otherVars>>

(***************************************************************************)
(* Part II: rdpy/protocol/rdp/sec.py. Data is a sequence of bytes (0..255).*)
(***************************************************************************)
\* SecurityFlag
SEC_EXCHANGE_PKT == 1
SEC_ENCRYPT == 8
SEC_INFO_PKT == 64
SEC_LICENSE_PKT == 128
\* tpkt.SecFlags.FASTPATH_OUTPUT_ENCRYPTED
FASTPATH_OUTPUT_ENCRYPTED == 2
\* the length of the signature read by readEncryptedPayload
SignatureLen == 8

Min(a, b) == IF a < b THEN a ELSE b
Take(s, n) == SubSeq(s, 1, Min(n, Len(s)))
Drop(s, n) == SubSeq(s, Min(n, Len(s)) + 1, Len(s))
Repeat(b, n) == [k \in 1..n |-> b]
Reverse(s) == [k \in 1..Len(s) |-> s[Len(s) + 1 - k]]

\* flag is a power of two: value & flag
HasFlag(value, flag) == (value \div flag) % 2 = 1
\* value | flag
SetFlag(value, flag) == IF HasFlag(value, flag) THEN value ELSE value + flag

\* UInt16Le and UInt32Le, written and read
UInt16Le(v) == <<v % 256, (v \div 256) % 256>>
UInt32Le(v) == <<v % 256, (v \div 256) % 256, (v \div 65536) % 256,
                 (v \div 16777216) % 256>>
ReadUInt16Le(s) == s[1] + 256 * s[2]

RECURSIVE BitXor(_, _)
BitXor(a, b) ==
    IF a = 0 THEN b
    ELSE IF b = 0 THEN a
    ELSE ((a + b) % 2) + 2 * BitXor(a \div 2, b \div 2)

\* the digests of the sha and md5 modules are stood in for by a position
\* weighted checksum of the data, spread over the digest's length (16 bytes
\* for md5, 20 for sha1)
Mix(seed, data) ==
    (seed + BagCardinality([k \in 1..Len(data) |->
                              k * k * 31 + data[k] * (2 * k + 1) + 1]))
    % 65521

Digest(seed, n, data) ==
    LET h == Mix(seed, data)
    IN [k \in 1..n |->
          ((h + 131 * k) * (2 * k + 1) + (h \div 256) * (k + 2)) % 256]

md5(data) == Digest(5381, 16, data)
sha1(data) == Digest(7919, 20, data)

\* the RC4 module: a key's state is the permutation S and the indices i, j
RC4Size == 16

\* the key scheduling, steps from..to-1, on st = [S, j]
RECURSIVE KSA(_, _, _, _)
KSA(st, key, from, to) ==
    IF from >= to THEN st
    ELSE IF to = from + 1
    THEN LET j2 == (st.j + st.S[from + 1] + key[(from % Len(key)) + 1])
                   % RC4Size
         IN [S |-> [st.S EXCEPT ![from + 1] = st.S[j2 + 1],
                                ![j2 + 1] = st.S[from + 1]],
             j |-> j2]
    ELSE LET mid == (from + to) \div 2
             left == KSA(st, key, from, mid)
         IN IF left.j >= 0 THEN KSA(left, key, mid, to) ELSE st

\* rc4.RC4Key(key)
RC4Key(key) ==
    [S |-> KSA([S |-> [x \in 1..RC4Size |-> x - 1], j |-> 0],
               key, 0, RC4Size).S,
     i |-> 0, j |-> 0]

\* no key yet (None)
NoRC4 == [S |-> <<>>, i |-> 0, j |-> 0]

\* rc4.crypt(key, data): the key's state moves on, byte by byte
RECURSIVE RC4Crypt(_, _, _, _)
RC4Crypt(key, data, k, out) ==
    IF k > Len(data) THEN [key |-> key, out |-> out]
    ELSE LET i == (key.i + 1) % RC4Size
             j == (key.j + key.S[i + 1]) % RC4Size
             S2 == [key.S EXCEPT ![i + 1] = key.S[j + 1],
                                 ![j + 1] = key.S[i + 1]]
             ks == S2[((S2[i + 1] + S2[j + 1]) % RC4Size) + 1]
         IN RC4Crypt([S |-> S2, i |-> i, j |-> j], data, k + 1,
                     Append(out, BitXor(data[k], ks)))

crypt(key, data) == RC4Crypt(key, data, 1, <<>>)

\* saltedHash
saltedHash(inputData, salt, salt1, salt2) ==
    md5(Take(salt, 48)
        \o sha1(inputData \o Take(salt, 48) \o salt1 \o salt2))

\* finalHash
finalHash(key, random1, random2) == md5(key \o random1 \o random2)

\* generateMicrosoftKeyABBCCC ("A" is 65)
generateMicrosoftKeyABBCCC(secret, random1, random2) ==
    saltedHash(<<65>>, secret, random1, random2)
    \o saltedHash(<<66, 66>>, secret, random1, random2)
    \o saltedHash(<<67, 67, 67>>, secret, random1, random2)

\* generateMicrosoftKeyXYYZZZ ("X" is 88)
generateMicrosoftKeyXYYZZZ(secret, random1, random2) ==
    saltedHash(<<88>>, secret, random1, random2)
    \o saltedHash(<<89, 89>>, secret, random1, random2)
    \o saltedHash(<<90, 90, 90>>, secret, random1, random2)

\* macData
macData(macSaltKey, data) ==
    md5(macSaltKey \o Repeat(92, 48)
        \o sha1(macSaltKey \o Repeat(54, 40) \o UInt32Le(Len(data)) \o data))

\* SecLayer.__init__; state is the automaton's current recv callback
NewSecLayer ==
    [state |-> "recv",
     enableEncryption |-> FALSE,
     clientRandom |-> <<>>,
     serverRandom |-> <<>>,
     decrypt |-> <<>>,
     encrypt |-> <<>>,
     decryptRc4 |-> NoRC4,
     encryptRc4 |-> NoRC4,
     sessionKey |-> <<>>,
     macKey128 |-> <<>>,
     info |-> [userName |-> <<>>],
     sent |-> <<>>,
     delivered |-> <<>>,
     errors |-> <<>>]

\* the position of a call among the calls the layer has made on the layers
\* around it
Clock(self) == Len(self.sent) + Len(self.delivered)

\* self._transport.send(data) and self._fastPathTransport.sendFastPath; with
\* the PDU are kept when it was sent (at) and whether encryption was enabled
\* then (enabled)
TransportSend(self, data) ==
    [self EXCEPT !.sent = Append(@, [path |-> "slow", secFlag |-> 0,
                                     data |-> data, at |-> Clock(self),
                                     enabled |-> self.enableEncryption])]
TransportSendFastPath(self, secFlag, data) ==
    [self EXCEPT !.sent = Append(@, [path |-> "fast", secFlag |-> secFlag,
                                     data |-> data, at |-> Clock(self),
                                     enabled |-> self.enableEncryption])]
\* self._presentation.recv(data), self._presentation.connect() and
\* self._fastPathPresentation.recvFastPath(secFlag, data)
PresentationRecv(self, data) ==
    [self EXCEPT !.delivered = Append(@, [kind |-> "recv", secFlag |-> 0,
                                          data |-> data,
                                          at |-> Clock(self)])]
PresentationConnect(self) ==
    [self EXCEPT !.delivered = Append(@, [kind |-> "connect", secFlag |-> 0,
                                          data |-> <<>>,
                                          at |-> Clock(self)])]
PresentationRecvFastPath(self, secFlag, data) ==
    [self EXCEPT !.delivered = Append(@, [kind |-> "recvFastPath",
                                          secFlag |-> secFlag,
                                          data |-> data,
                                          at |-> Clock(self)])]

\* SecLayer.generateKeys: the layer with its session and MAC keys set, and
\* the pair of keys returned
generateKeys(self) ==
    LET preMasterSecret == Take(self.clientRandom, 24)
                           \o Take(self.serverRandom, 24)
        masterSecret == generateMicrosoftKeyABBCCC(
                            preMasterSecret, self.clientRandom,
                            self.serverRandom)
        sessionKey == generateMicrosoftKeyXYYZZZ(
                          masterSecret, self.clientRandom, self.serverRandom)
    IN [self |-> [self EXCEPT !.sessionKey = sessionKey,
                              !.macKey128 = Take(sessionKey, 16)],
        first |-> finalHash(SubSeq(sessionKey, 17, 32), self.clientRandom,
                            self.serverRandom),
        second |-> finalHash(SubSeq(sessionKey, 33, 48), self.clientRandom,
                             self.serverRandom)]

\* readEncryptedPayload without the comparison of the signatures
readEncryptedPayloadNoCheck(self, s) ==
    LET c == crypt(self.decryptRc4, Drop(s, SignatureLen))
    IN [self |-> [self EXCEPT !.decryptRc4 = c.key], ok |-> TRUE,
        data |-> c.out]

\* SecLayer.readEncryptedPayload: the layer after the read, whether the
\* signature matched, and the decrypted data
readEncryptedPayload(self, s) ==
    LET signature == Take(s, SignatureLen)
        encryptedPayload == Drop(s, SignatureLen)
        c == crypt(self.decryptRc4, encryptedPayload)
        s1 == [self EXCEPT !.decryptRc4 = c.key]
    IN IF Take(macData(self.macKey128, c.out), 8) # signature
       THEN [self |-> Raise(s1, "Bad packet signature"), ok |-> FALSE,
             data |-> <<>>]
       ELSE [self |-> s1, ok |-> TRUE, data |-> c.out]

\* writeEncryptedPayload signing the encrypted data instead of the raw data
writeEncryptedPayloadSignCipher(self, data) ==
    LET c == crypt(self.encryptRc4, data)
    IN [self |-> [self EXCEPT !.encryptRc4 = c.key],
        data |-> Take(macData(self.macKey128, c.out), 8) \o c.out]

\* writeEncryptedPayload drawing its keystream from the decrypt stream
writeEncryptedPayloadShared(self, data) ==
    LET c == crypt(self.decryptRc4, data)
    IN [self |-> [self EXCEPT !.decryptRc4 = c.key],
        data |-> Take(macData(self.macKey128, data), 8) \o c.out]

\* SecLayer.writeEncryptedPayload: the layer after the write, and the
\* signature followed by the encrypted data
writeEncryptedPayload(self, data) ==
    LET c == crypt(self.encryptRc4, data)
    IN [self |-> [self EXCEPT !.encryptRc4 = c.key],
        data |-> Take(macData(self.macKey128, data), 8) \o c.out]

\* SecLayer.recv
recv(self, data) ==
    IF ~self.enableEncryption THEN PresentationRecv(self, data)
    ELSE IF Len(data) < 4 THEN Raise(self, "InvalidSize")
    ELSE LET securityFlag == ReadUInt16Le(data)
             rest == Drop(data, 4)
         IN IF HasFlag(securityFlag, SEC_ENCRYPT)
            THEN LET r == readEncryptedPayload(self, rest)
                 IN IF r.ok THEN PresentationRecv(r.self, r.data) ELSE r.self
            ELSE PresentationRecv(self, rest)

\* SecLayer.sendFlagged
sendFlagged(self, flag, data) ==
    IF HasFlag(flag, SEC_ENCRYPT)
    THEN LET w == writeEncryptedPayload(self, data)
         IN TransportSend(w.self, UInt16Le(flag) \o UInt16Le(0) \o w.data)
    ELSE TransportSend(self, UInt16Le(flag) \o UInt16Le(0) \o data)

\* send handing the data to the transport whatever enableEncryption says
sendUnflagged(self, data) == TransportSend(self, data)

\* SecLayer.send
send(self, data) ==
    IF ~self.enableEncryption THEN TransportSend(self, data)
    ELSE sendFlagged(self, SEC_ENCRYPT, data)

\* SecLayer.recvFastPath
recvFastPath(self, secFlag, fastPathS) ==
    IF self.enableEncryption /\ HasFlag(secFlag, FASTPATH_OUTPUT_ENCRYPTED)
    THEN LET r == readEncryptedPayload(self, fastPathS)
         IN IF r.ok THEN PresentationRecvFastPath(r.self, secFlag, r.data)
            ELSE r.self
    ELSE PresentationRecvFastPath(self, secFlag, fastPathS)

\* sendFastPath leaving the flags of the PDU as they came
sendFastPathKeepFlag(self, secFlag, fastPathS) ==
    IF self.enableEncryption
    THEN LET w == writeEncryptedPayload(self, fastPathS)
         IN TransportSendFastPath(w.self, secFlag, w.data)
    ELSE TransportSendFastPath(self, secFlag, fastPathS)

\* SecLayer.sendFastPath
sendFastPath(self, secFlag, fastPathS) ==
    IF self.enableEncryption
    THEN LET w == writeEncryptedPayload(self, fastPathS)
         IN TransportSendFastPath(w.self,
                SetFlag(secFlag, FASTPATH_OUTPUT_ENCRYPTED), w.data)
    ELSE TransportSendFastPath(self, secFlag, fastPathS)

\* rsa.encrypt stands in as a byte-wise bijection
RsaEncrypt(message) == [k \in 1..Len(message) |-> (message[k] * 7 + 3) % 256]

\* ClientSecurityExchangePDU, written: length, encryptedClientRandom, padding
WriteClientSecurityExchangePDU(encryptedClientRandom) ==
    UInt32Le(Len(encryptedClientRandom) + 8) \o encryptedClientRandom
    \o Repeat(0, 8)

\* RDPInfo, written and read; of its fields the model keeps cbUserName and
\* userName (a string followed by its two byte terminator)
WriteInfo(info) == UInt16Le(Len(info.userName)) \o info.userName \o <<0, 0>>
ReadInfo(s) ==
    IF Len(s) < 2 THEN [ok |-> FALSE, info |-> [userName |-> <<>>]]
    ELSE LET raw == Take(Drop(s, 2), ReadUInt16Le(s) + 2)
         IN [ok |-> TRUE,
             info |-> [userName |-> Take(raw, IF Len(raw) >= 2
                                              THEN Len(raw) - 2 ELSE 0)]]

\* lic.createValidClientLicensingErrorMessage(), written
LicensingErrorMessage == <<255, 3, 16, 0>>

\* Client.connect enabling encryption before the security exchange is sent
ClientConnectEncryptFirst(self, serverSelectedProtocol, clientRandom, serverRandom) ==
    LET s1 == [self EXCEPT !.clientRandom = clientRandom,
                           !.serverRandom = serverRandom]
        g == generateKeys(s1)
        s2 == [g.self EXCEPT !.decrypt = g.first, !.encrypt = g.second,
                             !.decryptRc4 = RC4Key(g.first),
                             !.encryptRc4 = RC4Key(g.second),
                             !.enableEncryption = TRUE]
        message == WriteClientSecurityExchangePDU(
                       Reverse(RsaEncrypt(Reverse(clientRandom))))
        s3 == IF serverSelectedProtocol = 0
              THEN sendFlagged(s2, SEC_EXCHANGE_PKT, message)
              ELSE self
        secFlag == IF s3.enableEncryption
                   THEN SetFlag(SEC_INFO_PKT, SEC_ENCRYPT) ELSE SEC_INFO_PKT
    IN [sendFlagged(s3, secFlag, WriteInfo(s3.info))
           EXCEPT !.state = "recvLicenceInfo"]

\* Client.connect; serverSelectedProtocol, the client random read from the
\* random source and the server random of the GCC settings are its inputs
ClientConnect(self, serverSelectedProtocol, clientRandom, serverRandom) ==
    LET s1 == [self EXCEPT !.clientRandom = clientRandom,
                           !.serverRandom = serverRandom]
        g == generateKeys(s1)
        s2 == [g.self EXCEPT !.decrypt = g.first, !.encrypt = g.second,
                             !.decryptRc4 = RC4Key(g.first),
                             !.encryptRc4 = RC4Key(g.second)]
        message == WriteClientSecurityExchangePDU(
                       Reverse(RsaEncrypt(Reverse(clientRandom))))
        s3 == IF serverSelectedProtocol = 0
              THEN [sendFlagged(s2, SEC_EXCHANGE_PKT, message)
                       EXCEPT !.enableEncryption = TRUE]
              ELSE self
        secFlag == IF s3.enableEncryption
                   THEN SetFlag(SEC_INFO_PKT, SEC_ENCRYPT) ELSE SEC_INFO_PKT
    IN [sendFlagged(s3, secFlag, WriteInfo(s3.info))
           EXCEPT !.state = "recvLicenceInfo"]

\* recvLicenceInfo without the test of SEC_LICENSE_PKT
recvLicenceInfoAnyFlag(self, s, licence) ==
    IF Len(s) < 4 THEN Raise(self, "InvalidSize")
    ELSE IF licence = "complete"
    THEN PresentationConnect([self EXCEPT !.state = "recv"])
    ELSE self

\* Client.recvLicenceInfo; licence is what self._licenceManager.recv
\* returns for the PDU: true ("complete") or false ("wait")
recvLicenceInfo(self, s, licence) ==
    IF Len(s) < 4 THEN Raise(self, "InvalidSize")
    ELSE IF ~HasFlag(ReadUInt16Le(s), SEC_LICENSE_PKT)
    THEN Raise(self, "Waiting license packet")
    ELSE IF licence = "complete"
    THEN PresentationConnect([self EXCEPT !.state = "recv"])
    ELSE self

\* Server.connect
ServerConnect(self) == [self EXCEPT !.state = "recvInfoPkt"]

\* Server.sendLicensingErrorMessage
sendLicensingErrorMessage(self) ==
    sendFlagged(self, SEC_LICENSE_PKT, LicensingErrorMessage)

\* recvInfoPkt connecting the presentation layer before the licensing error
\* message is sent
recvInfoPktConnectFirst(self, s) ==
    IF Len(s) < 4 THEN Raise(self, "InvalidSize")
    ELSE IF ~HasFlag(ReadUInt16Le(s), SEC_INFO_PKT)
    THEN Raise(self, "Waiting info packet")
    ELSE LET r == ReadInfo(Drop(s, 4))
         IN IF ~r.ok THEN Raise(self, "InvalidSize")
            ELSE [sendLicensingErrorMessage(
                      PresentationConnect([self EXCEPT !.info = r.info]))
                    EXCEPT !.state = "recv"]

\* Server.recvInfoPkt
recvInfoPkt(self, s) ==
    IF Len(s) < 4 THEN Raise(self, "InvalidSize")
    ELSE IF ~HasFlag(ReadUInt16Le(s), SEC_INFO_PKT)
    THEN Raise(self, "Waiting info packet")
    ELSE LET r == ReadInfo(Drop(s, 4))
         IN IF ~r.ok THEN Raise(self, "InvalidSize")
            ELSE PresentationConnect(
                     [sendLicensingErrorMessage(
                          [self EXCEPT !.info = r.info])
                         EXCEPT !.state = "recv"])

(***************************************************************************)
(* The surroundings of a security layer: the transport below it, the       *)
(* presentation layer above it, and its remote end. The remote end of the  *)
(* "client" layer holds the keys that match the client's (its encrypt      *)
(* stream starts from the client's decrypt key and the other way round)    *)
(* and writes and reads with the same two routines.                        *)
(***************************************************************************)
Roles == {"client", "server"}
Payloads == {<<1>>, <<2, 3>>}
Infos == {[userName |-> <<65>>]}
ClientRandoms == {Repeat(1, 32), Repeat(3, 32)}
ServerRandoms == {Repeat(2, 32)}
LicenceOutcomes == {"complete", "wait"}

NoItem == [path |-> "none", secFlag |-> 0, data |-> <<>>, plain |-> <<>>,
           sealed |-> FALSE, tamper |-> "none"]
\* the key lengths (in bits) of the encryption methods a server may select
NegotiatedKeyLengths == {40, 56, 128}
NoLast == [op |-> "none", role |-> "none", item |-> NoItem,
           before |-> NewSecLayer, licence |-> "none", keyLength |-> 0,
           encryptionMethod |-> 0]
NewPeer == [layer |-> NewSecLayer, read |-> 0, got |-> <<>>]

SecIdle ==
    /\ roles = {}
    /\ sec = [r \in Roles |-> NewSecLayer]
    /\ connected = {}
    /\ peer = NewPeer
    /\ plainSent = <<>>
    /\ last = NoLast
    /\ nPdu = 0

\* a signed and encrypted body, altered on its way
Tamper(body, how) ==
    IF how = "mac" THEN [body EXCEPT ![1] = (@ + 1) % 256]
    ELSE IF how = "cipher" THEN [body EXCEPT ![Len(body)] = (@ + 1) % 256]
    ELSE body

PresentationConnected(r) ==
    \E k \in 1..Len(sec[r].delivered) : sec[r].delivered[k].kind = "connect"

\* the remote end reads, in order, the PDUs the "client" layer has sent and
\* it has not read yet, and verifies and decrypts those flagged as encrypted
RECURSIVE PeerRead(_, _)
PeerRead(p, sent) ==
    IF p.read >= Len(sent) THEN p
    ELSE LET item == sent[p.read + 1]
             encrypted ==
                 /\ p.layer.enableEncryption
                 /\ IF item.path = "fast"
                    THEN HasFlag(item.secFlag, FASTPATH_OUTPUT_ENCRYPTED)
                    ELSE /\ Len(item.data) >= 4
                         /\ HasFlag(ReadUInt16Le(item.data), SEC_ENCRYPT)
             r == readEncryptedPayload(
                      p.layer,
                      IF item.path = "fast" THEN item.data
                      ELSE Drop(item.data, 4))
             next == IF encrypted
                     THEN [layer |-> r.self, read |-> p.read + 1,
                           got |-> Append(p.got,
                                          [ok |-> r.ok, data |-> r.data])]
                     ELSE [p EXCEPT !.read = @ + 1]
         IN IF next.read > 0 THEN PeerRead(next, sent) ELSE p

\* the transport is up: Client.connect()
SecClientConnect ==
    /\ "client" \in roles \ connected
    /\ \E serverSelectedProtocol \in {0, 1}, clientRandom \in ClientRandoms,
          serverRandom \in ServerRandoms,
          encryptionMethod \in EncryptionMethods :
       \E keyLength \in (IF serverSelectedProtocol = 0 /\ encryptionMethod # 0
                         THEN NegotiatedKeyLengths ELSE {0}) :
          LET new == ClientConnect(sec["client"], serverSelectedProtocol,
                                   clientRandom, serverRandom)
          IN /\ sec' = [sec EXCEPT !["client"] = new]
             /\ peer' = PeerRead(
                           IF new.enableEncryption
                           THEN [peer EXCEPT !.layer =
                                   [NewSecLayer EXCEPT
                                       !.enableEncryption = TRUE,
                                       !.encryptRc4 = RC4Key(new.decrypt),
                                       !.decryptRc4 = RC4Key(new.encrypt),
                                       !.macKey128 = new.macKey128]]
                           ELSE peer,
                           new.sent)
             /\ plainSent' = IF new.enableEncryption
                             THEN <<WriteInfo(new.info)>> ELSE <<>>
             /\ last' = [NoLast EXCEPT !.op = "connect", !.role = "client",
                                       !.before = sec["client"],
                                       !.item.secFlag = serverSelectedProtocol,
                                       !.keyLength = keyLength,
                                       !.encryptionMethod = encryptionMethod]
    /\ connected' = connected \cup {"client"}
    /\ UNCHANGED <<roles, nPdu, mitmVars, stream, qt, link>>

\* the transport is up: Server.connect()
SecServerConnect ==
    /\ "server" \in roles \ connected
    /\ sec' = [sec EXCEPT !["server"] = ServerConnect(sec["server"])]
    /\ connected' = connected \cup {"server"}
    /\ last' = [NoLast EXCEPT !.op = "connect", !.role = "server",
                              !.before = sec["server"]]
    /\ UNCHANGED <<roles, peer, plainSent, nPdu, mitmVars, stream, qt, link>>

\* a layer that is connected may receive and send
CanPass(r) ==
    /\ r \in roles \cap connected
    /\ nPdu < MaxPdu

\* where the layer is: while it waits for a licence or for the Info PDU its
\* remote end sends PDUs of the connection sequence, afterwards data
Awaiting(r) == sec[r].state \in {"recvLicenceInfo", "recvInfoPkt"}

\* the transport hands a PDU to the layer: a fast-path PDU to recvFastPath,
\* any other to the automaton's current recv callback
Dispatch(self, item, licence) ==
    IF item.path = "fast" THEN recvFastPath(self, item.secFlag, item.data)
    ELSE IF self.state = "recvLicenceInfo"
    THEN recvLicenceInfo(self, item.data, licence)
    ELSE IF self.state = "recvInfoPkt" THEN recvInfoPkt(self, item.data)
    ELSE recv(self, item.data)

\* the layer of role r receives item
Receive(r, item, licence) ==
    /\ sec' = [sec EXCEPT ![r] = Dispatch(sec[r], item, licence)]
    /\ last' = [op |-> "recv", role |-> r, item |-> item,
                before |-> sec[r], licence |-> licence,
                keyLength |-> 0, encryptionMethod |-> 0]
    /\ nPdu' = nPdu + 1

\* the ways an encrypted PDU is sent: the payload, how it is altered on its
\* way, and its path
EncryptedPdus ==
    {[payload |-> p, how |-> "none", path |-> t] :
        p \in Payloads, t \in {"slow", "fast"}}
    \cup {[payload |-> <<2, 3>>, how |-> "mac", path |-> "slow"],
          [payload |-> <<2, 3>>, how |-> "cipher", path |-> "slow"],
          [payload |-> <<2, 3>>, how |-> "mac", path |-> "fast"]}

\* the remote end signs and encrypts a payload, slow path or fast path; the
\* PDU may be altered on its way to the client layer
RecvEncrypted ==
    /\ CanPass("client") /\ ~Awaiting("client")
    /\ peer.layer.enableEncryption
    /\ \E pdu \in EncryptedPdus :
          LET w == writeEncryptedPayload(peer.layer, pdu.payload)
              body == Tamper(w.data, pdu.how)
              item == IF pdu.path = "slow"
                      THEN [path |-> "slow", secFlag |-> 0,
                            data |-> UInt16Le(SEC_ENCRYPT) \o UInt16Le(0)
                                     \o body,
                            plain |-> pdu.payload, sealed |-> TRUE,
                            tamper |-> pdu.how]
                      ELSE [path |-> "fast",
                            secFlag |-> FASTPATH_OUTPUT_ENCRYPTED,
                            data |-> body,
                            plain |-> pdu.payload, sealed |-> TRUE,
                            tamper |-> pdu.how]
          IN /\ Receive("client", item, "none")
             /\ peer' = PeerRead([peer EXCEPT !.layer = w.self],
                                 sec'["client"].sent)
    /\ UNCHANGED <<roles, connected, plainSent, mitmVars, stream, qt, link>>

\* the PDUs a remote end sends in the clear. While the layer waits: to the
\* server layer an Info PDU, whole or cut short, a licensing PDU or a
\* security exchange; to the client layer a licensing PDU or an Info PDU.
\* Afterwards data, behind a security header if the layer expects one
PlainPdus(r) ==
    IF Awaiting(r)
    THEN {[flag |-> SEC_INFO_PKT, header |-> TRUE, payload |-> WriteInfo(i)] :
             i \in Infos}
         \cup {[flag |-> SEC_LICENSE_PKT, header |-> TRUE,
                payload |-> LicensingErrorMessage]}
         \cup (IF r = "server"
               THEN {[flag |-> SEC_INFO_PKT, header |-> TRUE,
                      payload |-> <<5>>],
                     [flag |-> SEC_EXCHANGE_PKT, header |-> TRUE,
                      payload |-> LicensingErrorMessage]}
               ELSE {})
    ELSE {[flag |-> 0, header |-> sec[r].enableEncryption, payload |-> p] :
             p \in Payloads}

\* a layer receives a PDU sent in the clear; the licence manager of the
\* client layer reports whether the licence is complete
RecvPlain ==
    /\ \E r \in Roles :
          /\ CanPass(r)
          /\ \E pdu \in PlainPdus(r),
                licence \in (IF sec[r].state = "recvLicenceInfo"
                             THEN LicenceOutcomes ELSE {"none"}) :
                Receive(r,
                        [path |-> "slow", secFlag |-> 0,
                         data |-> IF pdu.header
                                  THEN UInt16Le(pdu.flag) \o UInt16Le(0)
                                       \o pdu.payload
                                  ELSE pdu.payload,
                         plain |-> pdu.payload, sealed |-> FALSE,
                         tamper |-> "none"],
                        licence)
    /\ peer' = PeerRead(peer, sec'["client"].sent)
    /\ UNCHANGED <<roles, connected, plainSent, mitmVars, stream, qt, link>>

\* a layer receives a fast-path PDU sent in the clear, with or without the
\* encrypted flag
RecvFastPath ==
    /\ \E r \in Roles, secFlag \in {0, FASTPATH_OUTPUT_ENCRYPTED} :
          /\ CanPass(r) /\ ~Awaiting(r)
          /\ Receive(r,
                     [path |-> "fast", secFlag |-> secFlag,
                      data |-> <<2, 3>>, plain |-> <<2, 3>>,
                      sealed |-> FALSE, tamper |-> "none"],
                     "none")
    /\ peer' = PeerRead(peer, sec'["client"].sent)
    /\ UNCHANGED <<roles, connected, plainSent, mitmVars, stream, qt, link>>

\* the presentation layer, once connected, sends data
LayerSend ==
    /\ \E r \in Roles, payload \in Payloads :
          /\ CanPass(r) /\ PresentationConnected(r)
          /\ sec' = [sec EXCEPT ![r] = send(sec[r], payload)]
          /\ plainSent' = IF r = "client" /\ sec[r].enableEncryption
                          THEN Append(plainSent, payload) ELSE plainSent
          /\ last' = [NoLast EXCEPT !.op = "send", !.role = r,
                                    !.item.data = payload,
                                    !.before = sec[r]]
    /\ nPdu' = nPdu + 1
    /\ peer' = PeerRead(peer, sec'["client"].sent)
    /\ UNCHANGED <<roles, connected, mitmVars, stream, qt, link>>

LayerSendFastPath ==
    /\ \E r \in Roles, payload \in {<<2, 3>>}, secFlag \in {0, 1} :
          /\ CanPass(r) /\ PresentationConnected(r)
          /\ sec' = [sec EXCEPT ![r] = sendFastPath(sec[r], secFlag, payload)]
          /\ plainSent' = IF r = "client" /\ sec[r].enableEncryption
                          THEN Append(plainSent, payload) ELSE plainSent
          /\ last' = [NoLast EXCEPT !.op = "sendFastPath", !.role = r,
                                    !.item.data = payload,
                                    !.item.secFlag = secFlag,
                                    !.before = sec[r]]
    /\ nPdu' = nPdu + 1
    /\ peer' = PeerRead(peer, sec'["client"].sent)
    /\ UNCHANGED <<roles, connected, mitmVars, stream, qt, link>>

(***************************************************************************)
(* A Client layer and a Server layer back to back: the transport of each   *)
(* hands what the other has sent, in order, to the layer's current recv    *)
(* callback.                                                               *)
(***************************************************************************)
NoLink == [toServer |-> 0, toClient |-> 0]

\* a PDU one layer has sent, as it reaches the other
Arriving(pdu) ==
    [path |-> pdu.path, secFlag |-> pdu.secFlag, data |-> pdu.data,
     plain |-> <<>>, sealed |-> FALSE, tamper |-> "none"]

\* the Server layer is handed the next PDU the Client layer has sent
DeliverToServer ==
    /\ roles = Roles
    /\ "server" \in connected
    /\ link.toServer < Len(sec["client"].sent)
    /\ Receive("server", Arriving(sec["client"].sent[link.toServer + 1]),
               "none")
    /\ link' = [link EXCEPT !.toServer = @ + 1]
    /\ peer' = PeerRead(peer, sec'["client"].sent)
    /\ UNCHANGED <<roles, connected, plainSent, mitmVars, stream, qt>>

\* the Client layer is handed the next PDU the Server layer has sent; its
\* licence manager finds the licensing error message of the Server
\* (STATUS_VALID_CLIENT) complete
DeliverToClient ==
    /\ roles = Roles
    /\ "client" \in connected
    /\ link.toClient < Len(sec["server"].sent)
    /\ LET pdu == sec["server"].sent[link.toClient + 1]
       IN Receive("client", Arriving(pdu),
                  IF sec["client"].state = "recvLicenceInfo"
                  THEN (IF Drop(pdu.data, 4) = LicensingErrorMessage
                        THEN "complete" ELSE "wait")
                  ELSE "none")
    /\ link' = [link EXCEPT !.toClient = @ + 1]
    /\ peer' = PeerRead(peer, sec'["client"].sent)
    /\ UNCHANGED <<roles, connected, plainSent, mitmVars, stream, qt>>

(***************************************************************************)
(* The long exchange.                                                      *)
(***************************************************************************)
\* the number of packets after which a direction's RC4 key is to be renewed
RekeyInterval == 4096
StreamPayloads == {<<1>>, <<2>>}

\* a layer keyed as Client.connect() keys it, and its remote end
KeyedLayer(clientRandom, serverRandom) ==
    LET g == generateKeys([NewSecLayer EXCEPT
                              !.clientRandom = clientRandom,
                              !.serverRandom = serverRandom])
    IN [g.self EXCEPT !.decrypt = g.first, !.encrypt = g.second,
                      !.decryptRc4 = RC4Key(g.first),
                      !.encryptRc4 = RC4Key(g.second),
                      !.enableEncryption = TRUE]
RemoteOf(layer) ==
    [NewSecLayer EXCEPT !.enableEncryption = TRUE,
                        !.encryptRc4 = RC4Key(layer.decrypt),
                        !.decryptRc4 = RC4Key(layer.encrypt),
                        !.macKey128 = layer.macKey128]

NoStream == [writer |-> NewSecLayer, reader |-> NewSecLayer, wire |-> <<>>,
             encrypted |-> 0, decrypted |-> 0]
NewStream(clientRandom, serverRandom) ==
    [NoStream EXCEPT
        !.writer = KeyedLayer(clientRandom, serverRandom),
        !.reader = RemoteOf(KeyedLayer(clientRandom, serverRandom))]

\* the RC4 state after is the state before moved on over n bytes: the key
\* has not been set anew
SameKey(before, after, n) == after = crypt(before, Repeat(0, n)).key

\* the writer signs and encrypts one more packet
StreamWrite ==
    /\ stream.wire = <<>>
    /\ stream.encrypted <= RekeyInterval
    /\ \E data \in StreamPayloads :
          LET w == writeEncryptedPayload(stream.writer, data)
          IN stream' = [stream EXCEPT
                !.writer = w.self,
                !.wire = w.data,
                !.encrypted =
                   IF SameKey(stream.writer.encryptRc4, w.self.encryptRc4,
                              Len(data))
                   THEN @ + 1 ELSE 1]
    /\ UNCHANGED <<mitmVars, secVars, qt, link>>

\* the reader decrypts the packet on the wire and checks its signature
StreamRead ==
    /\ stream.wire # <<>>
    /\ LET r == readEncryptedPayload(stream.reader, stream.wire)
       IN stream' = [stream EXCEPT
             !.reader = r.self,
             !.wire = <<>>,
             !.decrypted =
                IF SameKey(stream.reader.decryptRc4, r.self.decryptRc4,
                           Len(stream.wire) - SignatureLen)
                THEN @ + 1 ELSE 1]
    /\ UNCHANGED <<mitmVars, secVars, qt, link>>

(***************************************************************************)
(* Part III: rdpy/display/qt.py, QRemoteDesktop. An image is a record of   *)
(* its position, its content and the rank of its notification.             *)
(***************************************************************************)
Images == {"a", "b"}

\* QRemoteDesktop.__init__
NewQRemoteDesktop ==
    [refresh |-> <<>>, lastReceive |-> "unset", updateAsked |-> FALSE,
     drawn |-> <<>>, notified |-> 0, paints |-> 0, lastOp |-> "none"]

\* QRemoteDesktop.notifyImage
notifyImage(self, x, y, qimage) ==
    [self EXCEPT
        !.refresh = Append(@, [x |-> x, y |-> y, image |-> qimage,
                               n |-> self.notified + 1]),
        !.updateAsked = TRUE,
        !.notified = @ + 1,
        !.lastOp = "notifyImage"]

\* the calls of qp.drawImage of one paint event, in the order of the list
Draw(self, images) ==
    [k \in 1..Len(images) |-> [paint |-> self.paints + 1,
                               image |-> images[k]]]

\* QRemoteDesktop.paintEvent
paintEvent(self) ==
    IF self.refresh = <<>>
    THEN [self EXCEPT !.paints = @ + 1, !.updateAsked = FALSE,
                      !.lastOp = "paintEvent"]
    ELSE [self EXCEPT !.drawn = @ \o Draw(self, self.refresh),
                      !.lastReceive = <<>>,
                      !.paints = @ + 1, !.updateAsked = FALSE,
                      !.lastOp = "paintEvent"]

\* the adaptor notifies an image
NotifyImage ==
    /\ qt.notified < MaxImages
    /\ \E x \in {0, 8}, qimage \in Images :
          qt' = notifyImage(qt, x, 0, qimage)
    /\ UNCHANGED <<mitmVars, secVars, stream, link>>

\* Qt asks the widget to paint itself, after an update() or on its own
PaintEvent ==
    /\ qt.paints < MaxPaints
    /\ qt' = paintEvent(qt)
    /\ UNCHANGED <<mitmVars, secVars, stream, link>>

MITMInit ==
    /\ client = NewClient
    /\ phase = "Idle"
    /\ selected = "none"
    /\ joinSent = <<>>
    /\ joinPending = <<>>
    /\ channels = {}
    /\ tcp = "open"
    /\ nData = 0
    /\ nLicense = 0

Init ==
    /\ MITMInit /\ SecIdle /\ stream = NoStream /\ qt = NewQRemoteDesktop
    /\ link = NoLink

Next ==
    \/ TcpConnected
    \/ TargetConnectionConfirm
    \/ TargetNegotiationFailure
    \/ VictimConnectInitial
    \/ TargetConnectResponse
    \/ VictimAttachUserRequest
    \/ TargetAttachConfirm
    \/ TargetAttachRefused
    \/ VictimChannelJoinRequest
    \/ TargetChannelJoinConfirm
    \/ TargetChannelJoinRefused
    \/ VictimClientInfo
    \/ TargetLicensingData
    \/ TargetSendData
    \/ VictimSendData
    \/ ConnectionLost
    \/ TargetDisconnectRequest
    \/ TargetUnknownHeader
    \/ TargetDisconnectProviderUltimatum
    \/ VictimDisconnect

vars == <<mitmVars, secVars, stream, qt, link>>

Spec == Init /\ [][Next]_vars

\* a session whose target may confirm a join more than once
RejoinNext == Next \/ TargetChannelJoinConfirmAgain

SpecRejoin == Init /\ [][RejoinNext]_vars

\* tcp.disconnect() makes the transport lose the connection and report it:
\* once asked, the closing of the target transport is not postponed forever
TransportCloses == tcp = "closing" /\ ConnectionLost
SpecLive == Init /\ [][Next]_vars /\ WF_vars(TransportCloses)

(***************************************************************************)
(* Properties of MITMClient, over the calls it has made (client.events).   *)
(***************************************************************************)
Events == client.events
HasEvent(op) == \E i \in 1..Len(Events) : Events[i].op = op
HasEventOn(op, arg) ==
    \E i \in 1..Len(Events) : Events[i] = Ev(op, arg)
CountOn(op, arg) ==
    Cardinality({i \in 1..Len(Events) : Events[i] = Ev(op, arg)})

\* what the client sends to the target over MCS, directly or through the
\* security layer of the I/O channel
McsSends == {"rdpConnect.send", "user.attach", "mcs.send(ChannelJoinRequest)",
             "mcs.send(SendData)", "securityLayer.sendSecurityExchange",
             "securityLayer.sendClientInfo"}
JoinAnswers == {"mcs.recv(ChannelJoinConfirm)", "mcs.recv(ChannelJoinRefused)"}
SendDatas == {"channel.recv(SendData)", "mcs.send(SendData)"}

\* C1: when the ConnectionConfirm selects TLS, tcp.startTLS is called before
\* the ConnectionConfirm is handed to the victim-facing side and before any
\* MCS PDU is sent to the target; when it does not, startTLS is never called
\* and useTLS stays false
C1_StartTLSFirst ==
    /\ selected = "tls" =>
          \A i \in 1..Len(Events) :
             Events[i].op \in McsSends \cup {"server.onConnectionConfirm"} =>
                \E j \in 1..(i - 1) : Events[j].op = "tcp.startTLS"
    /\ selected # "tls" => ~HasEvent("tcp.startTLS") /\ ~client.useTLS

C1_Witness ==
    /\ selected = "tls"
    /\ HasEvent("server.onConnectionConfirm")
    /\ HasEvent("mcs.send(ChannelJoinRequest)")

\* C2: in a TLS session securityHeaderExpected of the I/O channel's security
\* layer is true from the building of the I/O channel until licensing data
\* is received and false ever after; in a session without TLS it is never
\* set
C2_SecurityHeaderExpected ==
    /\ selected = "tls" /\ client.securityLayer.kind # "None" =>
          client.securityLayer.securityHeaderExpected =
             IF HasEvent("security.recv(LicensingData)")
             THEN "False" ELSE "True"
    /\ selected # "tls" =>
          client.securityLayer.securityHeaderExpected = "unset"

C2_Witness ==
    /\ selected = "tls"
    /\ HasEvent("security.recv(LicensingData)")
    /\ HasEvent("channel.recv(SendData)")
    /\ client.securityLayer.securityHeaderExpected = "False"

C10_RefusalIsNotFatal ==
    [][/\ (/\ Len(client'.events) > Len(client.events)
           /\ client'.events[Len(client.events) + 1].op
                 = "mcs.recv(ChannelJoinRefused)") =>
             LET c == client'.events[Len(client.events) + 1].arg
             IN /\ NewEvents(client, client')
                      = <<Ev("mcs.recv(ChannelJoinRefused)", c),
                          Ev("server.onChannelJoinRefused", c)>>
                /\ client'.errors = client.errors
                /\ tcp' = tcp /\ phase' = phase
                /\ channels' = channels
                /\ client'.channelObservers = client.channelObservers
       /\ \A i \in 1..Len(client'.events) :
             LET c == client'.events[i].arg
             IN /\ client'.events[i].op = "mcs.recv(ChannelJoinRefused)" =>
                     /\ c \notin channels'
                     /\ c \notin DOMAIN client'.channelObservers
                     /\ \A j \in 1..Len(client'.events) :
                           ~(/\ client'.events[j].op \in SendDatas
                             /\ client'.events[j].arg = c)
                /\ client'.events[i].op = "mcs.recv(ChannelJoinConfirm)" =>
                     /\ c \in channels'
                     /\ c \in DOMAIN client'.channelObservers
      ]_vars

C10_Witness ==
    \E i, j \in 1..Len(Events) :
       /\ i < j
       /\ Events[i].op = "mcs.recv(ChannelJoinRefused)"
       /\ Events[j].op = "mcs.recv(ChannelJoinConfirm)"
       /\ Events[j].arg \in channels \cap DOMAIN client.channelObservers
       /\ Events[i].arg \notin channels \cup DOMAIN client.channelObservers
       /\ tcp = "open" /\ phase = "JoinChannels"

JoinRequestAt(i) == Events[i].op = "mcs.send(ChannelJoinRequest)"
IOChannel == client.serverData.mcsChannelID

C13_LicensingNotForwarded ==
    \A i \in 1..Len(Events) :
       Events[i].op = "security.recv(LicensingData)" =>
          ~(/\ i < Len(Events)
            /\ Events[i + 1].op = "server.onLicensingDataReceived")

\* C14: whenever the target-side connection ends, the victim-facing side is
\* eventually asked to shut down: a DisconnectProviderUltimatum of the target
\* is forwarded to it (server.sendDisconnectProviderUltimatum), and after a
\* lost transport or an X.224 Disconnect Request it is asked to close
\* (server.disconnect)
TargetEnded ==
    \/ HasEvent("tcp.connectionLost")
    \/ HasEvent("x224.recv(DisconnectRequest)")
C14_SymmetricShutdown ==
    /\ [](\A i \in 1..Len(Events) :
             Events[i].op = "mcs.recv(DisconnectProviderUltimatum)" =>
                /\ i < Len(Events)
                /\ Events[i + 1].op = "server.sendDisconnectProviderUltimatum")
    /\ [](\A i \in 1..Len(Events) :
             Events[i].op = "tcp.connectionLost" =>
                i < Len(Events) /\ Events[i + 1].op = "server.disconnect")
    /\ TargetEnded ~> HasEvent("server.disconnect")
C14_Witness ==
    /\ HasEvent("x224.recv(DisconnectRequest)")
    /\ HasEvent("mcs.send(ChannelJoinRequest)")
    /\ HasEvent("server.disconnect")
    /\ phase = "Closed"

\* C15: an unknown first byte reported by the segmentation layer makes the
\* client close the target transport at once, whatever the state of the
\* handshake, and nothing of the session follows but the end of the transport
C15_UnknownHeaderCloses ==
    \A i \in 1..Len(Events) :
       Events[i].op = "segmentation.recv(UnknownHeader)" =>
          /\ i < Len(Events)
          /\ Events[i + 1].op = "tcp.disconnect"
          /\ tcp # "open"
          /\ \A j \in (i + 2)..Len(Events) :
                Events[j].op \in {"tcp.connectionLost", "server.disconnect"}
C15_Witness ==
    /\ HasEvent("segmentation.recv(UnknownHeader)")
    /\ joinPending # <<>>
    /\ tcp = "closed"

\* C16: when a session has ended because of a failure such as an unknown
\* header, the client's recorder has been asked for exactly one CLOSE record
\* (recorder.record with the close reason) by the time the session is finished
CloseRecords == {i \in 1..Len(Events) : Events[i].op = "recorder.record(CLOSE)"}
C16_OneCloseRecord ==
    (phase = "Closed" /\ HasEvent("segmentation.recv(UnknownHeader)")) =>
       Cardinality(CloseRecords) = 1

\* C17: after a ConnectionConfirm that carries a Negotiation Failure the
\* handshake does not proceed to the MCS connect phase: no Connect Initial
\* is sent to the target (rdpConnect.send)
C17_NegotiationFailureFatal ==
    \A i \in 1..Len(Events) :
       Events[i] = Ev("x224.recv(ConnectionConfirm)", SSL_REQUIRED_BY_SERVER)
          => \A j \in (i + 1)..Len(Events) : Events[j].op # "rdpConnect.send"

\* C18: once the server data is received, channelMap maps the I/O channel id
\* of the server to "I/O" and the i-th channel id of the server NETWORK block
\* to the name of the victim's i-th channel definition, and every channel
\* built since has the pipeline of its mapped name: the I/O pipeline, the
\* clipboard pipeline for the clipboard name, the raw virtual-channel
\* pipeline for any other name
PipelineOf(channelName) ==
    IF channelName = "I/O" THEN "slowPath"
    ELSE IF channelName = CLIPBOARD THEN "clipboard"
    ELSE "virtual"
C23_SecurityExchangeAfterJoins ==
    \A i \in 1..Len(Events) :
       Events[i].op = "securityLayer.sendSecurityExchange" =>
          /\ \A c \in ToJoin :
                \E j \in 1..(i - 1) :
                   Events[j].op \in JoinAnswers /\ Events[j].arg = c
          /\ \A j \in 1..Len(Events) :
                Events[j].op = "securityLayer.sendClientInfo" => i < j

InitSec ==
    /\ MITMInit
    /\ roles \in {{"client"}, {"server"}}
    /\ sec = [r \in Roles |-> NewSecLayer]
    /\ connected = {}
    /\ peer = NewPeer
    /\ plainSent = <<>>
    /\ last = NoLast
    /\ nPdu = 0
    /\ stream = NoStream
    /\ qt = NewQRemoteDesktop
    /\ link = NoLink

SecNext ==
    \/ SecClientConnect
    \/ SecServerConnect
    \/ RecvEncrypted
    \/ RecvPlain
    \/ RecvFastPath
    \/ LayerSend
    \/ LayerSendFastPath

SpecSec == InitSec /\ [][SecNext]_vars

(***************************************************************************)
(* Properties of the security layers, over the last operation (last: the   *)
(* operation, its input and the layer before it) and over what the layers  *)
(* have sent and delivered.                                                *)
(***************************************************************************)
Before == last.before
After == sec[last.role]
Last(s) == s[Len(s)]
Header(flag) == UInt16Le(flag) \o UInt16Le(0)
\* the PDU a layer has sent, without the marks of when it was sent
Pdu(item) == [path |-> item.path, secFlag |-> item.secFlag,
              data |-> item.data]
Connects(self) ==
    {k \in 1..Len(self.delivered) : self.delivered[k].kind = "connect"}

\* the last operation handed a PDU to recv (slow path, after the connection
\* sequence) or to recvFastPath
LastRecvSlow ==
    /\ last.op = "recv" /\ last.item.path = "slow"
    /\ Before.state = "recv"
LastRecvFast == last.op = "recv" /\ last.item.path = "fast"
\* ... and the layer took it for an encrypted PDU; its signature and its
\* encrypted data
LastFlaggedEncrypted ==
    /\ Before.enableEncryption
    /\ \/ /\ LastRecvSlow /\ Len(last.item.data) >= 4
          /\ HasFlag(ReadUInt16Le(last.item.data), SEC_ENCRYPT)
       \/ /\ LastRecvFast
          /\ HasFlag(last.item.secFlag, FASTPATH_OUTPUT_ENCRYPTED)
LastBody ==
    IF last.item.path = "slow" THEN Drop(last.item.data, 4)
    ELSE last.item.data
LastDecrypted == crypt(Before.decryptRc4, Drop(LastBody, SignatureLen)).out
LastMacMatches ==
    Take(macData(Before.macKey128, LastDecrypted), SignatureLen)
       = Take(LastBody, SignatureLen)

\* C3: payloads signed and encrypted by writeEncryptedPayload and read in
\* the same order by readEncryptedPayload of the end that holds the matching
\* keys all pass the MAC check and come out as they went in: what the client
\* layer writes and its remote end reads, and what the remote end writes
\* and the client layer reads
C3_RoundTrip ==
    /\ Len(peer.got) = Len(plainSent)
    /\ \A k \in 1..Len(peer.got) :
          peer.got[k] = [ok |-> TRUE, data |-> plainSent[k]]
    /\ (/\ last.op = "recv" /\ last.item.sealed
        /\ last.item.tamper = "none") =>
          /\ After.errors = Before.errors
          /\ Len(After.delivered) = Len(Before.delivered) + 1
          /\ Last(After.delivered).data = last.item.plain

C3_Witness ==
    /\ Len(peer.got) >= 2
    /\ peer.got[2] = [ok |-> TRUE, data |-> <<2, 3>>]
    /\ last.op = "recv" /\ last.item.sealed /\ last.item.tamper = "none"
    /\ Before.decryptRc4 # RC4Key(Before.decrypt)
    /\ Last(After.delivered).data = <<2, 3>>

\* C4: when a PDU taken for an encrypted one carries a signature that
\* differs from the MAC of its decrypted payload, the read raises "Bad
\* packet signature" and nothing is delivered to the upper layer, in recv
\* and in recvFastPath
C4_BadSignature ==
    (LastFlaggedEncrypted /\ ~LastMacMatches) =>
       /\ After.errors = Append(Before.errors, "Bad packet signature")
       /\ After.delivered = Before.delivered

C4_Witness ==
    /\ LastRecvFast /\ LastFlaggedEncrypted /\ ~LastMacMatches
    /\ last.item.tamper = "mac"
    /\ \E k \in 1..Len(Before.errors) :
          Before.errors[k] = "Bad packet signature"

\* C5: with encryption enabled, send() emits the flags with SEC_ENCRYPT, the
\* high flags, the first 8 bytes of the MAC of the plaintext and the RC4
\* ciphertext; an inbound PDU flagged SEC_ENCRYPT is delivered only
\* decrypted and with a matching MAC, one without the flag is delivered as
\* it is behind its 4 byte header. With encryption disabled send() and
\* recv() hand the data on unchanged
C5_EncryptedFraming ==
    /\ last.op = "send" =>
          /\ Len(After.sent) = Len(Before.sent) + 1
          /\ Pdu(Last(After.sent)) =
                [path |-> "slow", secFlag |-> 0,
                 data |-> IF Before.enableEncryption
                          THEN Header(SEC_ENCRYPT)
                               \o Take(macData(Before.macKey128,
                                               last.item.data), 8)
                               \o crypt(Before.encryptRc4,
                                        last.item.data).out
                          ELSE last.item.data]
    /\ (LastRecvSlow /\ Before.enableEncryption
        /\ Len(last.item.data) >= 4) =>
          IF HasFlag(ReadUInt16Le(last.item.data), SEC_ENCRYPT)
          THEN After.delivered # Before.delivered =>
                  /\ LastMacMatches
                  /\ After.delivered =
                        Append(Before.delivered,
                               [kind |-> "recv", secFlag |-> 0,
                                data |-> LastDecrypted,
                                at |-> Clock(Before)])
          ELSE /\ After.delivered =
                     Append(Before.delivered,
                            [kind |-> "recv", secFlag |-> 0,
                             data |-> Drop(last.item.data, 4),
                             at |-> Clock(Before)])
               /\ After.decryptRc4 = Before.decryptRc4
    /\ (LastRecvSlow /\ ~Before.enableEncryption) =>
          After.delivered =
             Append(Before.delivered,
                    [kind |-> "recv", secFlag |-> 0,
                     data |-> last.item.data, at |-> Clock(Before)])

C5_Witness ==
    /\ last.op = "send" /\ Before.enableEncryption
    /\ last.item.data = <<2, 3>>
    /\ Len(Last(After.sent).data) = 4 + 8 + 2
    /\ \E k \in 1..Len(Before.delivered) :
          /\ Before.delivered[k].kind = "recv"
          /\ Before.delivered[k].data = <<2, 3>>

\* C6: Client.connect with standard RDP security (serverSelectedProtocol 0)
\* sends the security exchange first, flagged SEC_EXCHANGE_PKT alone, in
\* the clear and while encryption is still disabled, then the Client Info
\* flagged SEC_INFO_PKT|SEC_ENCRYPT, signed and encrypted, and waits for
\* the licence; with another protocol it sends the Client Info alone,
\* flagged SEC_INFO_PKT, in the clear
C6_ClientConnect ==
    (last.op = "connect" /\ last.role = "client") =>
       /\ After.state = "recvLicenceInfo"
       /\ After.delivered = <<>>
       /\ IF last.item.secFlag = 0
          THEN /\ Len(After.sent) = 2
               /\ Pdu(After.sent[1]) =
                     [path |-> "slow", secFlag |-> 0,
                      data |-> Header(SEC_EXCHANGE_PKT)
                               \o WriteClientSecurityExchangePDU(
                                     Reverse(RsaEncrypt(
                                        Reverse(After.clientRandom))))]
               /\ ~After.sent[1].enabled
               /\ After.sent[2].enabled /\ After.enableEncryption
               /\ Pdu(After.sent[2]) =
                     [path |-> "slow", secFlag |-> 0,
                      data |-> Header(SEC_INFO_PKT + SEC_ENCRYPT)
                               \o Take(macData(After.macKey128,
                                               WriteInfo(After.info)), 8)
                               \o crypt(RC4Key(After.encrypt),
                                        WriteInfo(After.info)).out]
          ELSE /\ ~After.enableEncryption
               /\ Len(After.sent) = 1
               /\ Pdu(After.sent[1]) =
                     [path |-> "slow", secFlag |-> 0,
                      data |-> Header(SEC_INFO_PKT) \o WriteInfo(After.info)]

C6_Witness ==
    /\ last.op = "connect" /\ last.role = "client"
    /\ last.item.secFlag = 0
    /\ Len(After.sent) = 2
    /\ peer.got = <<[ok |-> TRUE, data |-> WriteInfo(After.info)]>>

\* C7: while the client layer waits for the licence, a PDU without
\* SEC_LICENSE_PKT raises "Waiting license packet" and leaves the layer
\* waiting; the presentation layer is connected once, by the first licence
\* PDU that the licence manager reports complete, and not before
C7_Licence ==
    /\ "client" \in connected =>
          /\ Cardinality(Connects(sec["client"])) <= 1
          /\ sec["client"].state = "recvLicenceInfo"
                <=> Connects(sec["client"]) = {}
          /\ sec["client"].state = "recvLicenceInfo"
                => sec["client"].delivered = <<>>
    /\ (/\ last.op = "recv" /\ last.role = "client"
        /\ last.item.path = "slow"
        /\ Before.state = "recvLicenceInfo"
        /\ Len(last.item.data) >= 4) =>
          IF ~HasFlag(ReadUInt16Le(last.item.data), SEC_LICENSE_PKT)
          THEN /\ After.errors
                     = Append(Before.errors, "Waiting license packet")
               /\ After.state = "recvLicenceInfo"
               /\ After.delivered = Before.delivered
               /\ After.sent = Before.sent
          ELSE /\ After.errors = Before.errors
               /\ IF last.licence = "complete"
                  THEN /\ After.state = "recv"
                       /\ Len(After.delivered) = 1
                       /\ After.delivered[1].kind = "connect"
                  ELSE /\ After.state = "recvLicenceInfo"
                       /\ After.delivered = <<>>

C7_Witness ==
    /\ last.op = "recv" /\ last.role = "client"
    /\ Before.state = "recvLicenceInfo"
    /\ last.licence = "complete"
    /\ Before.errors = <<"Waiting license packet">>
    /\ Cardinality(Connects(After)) = 1

\* C8: the server layer sends the licensing error message, flagged
\* SEC_LICENSE_PKT, once: when it has received and read a PDU flagged
\* SEC_INFO_PKT, and before it connects the presentation layer; a PDU
\* without SEC_INFO_PKT received while it waits raises "Waiting info
\* packet", no licensing message is sent and the presentation layer is not
\* connected
C8_ServerLicensing ==
    LET server == sec["server"]
        licensing == Header(SEC_LICENSE_PKT) \o LicensingErrorMessage
        sentAt == {k \in 1..Len(server.sent) :
                      server.sent[k].data = licensing}
    IN /\ Cardinality(sentAt) <= 1
       /\ "server" \in connected =>
             /\ server.state = "recvInfoPkt" <=> sentAt = {}
             /\ server.state = "recvInfoPkt"
                   => server.sent = <<>> /\ server.delivered = <<>>
             /\ server.state # "recvInfoPkt" =>
                   /\ sentAt = {1}
                   /\ server.delivered[1].kind = "connect"
                   /\ server.sent[1].at < server.delivered[1].at
                   /\ Cardinality(Connects(server)) = 1
       /\ (/\ last.op = "recv" /\ last.role = "server"
           /\ last.item.path = "slow"
           /\ Before.state = "recvInfoPkt"
           /\ Len(last.item.data) >= 4) =>
             IF ~HasFlag(ReadUInt16Le(last.item.data), SEC_INFO_PKT)
             THEN /\ After.errors
                        = Append(Before.errors, "Waiting info packet")
                  /\ After.state = "recvInfoPkt"
                  /\ After.sent = <<>> /\ After.delivered = <<>>
             ELSE IF ReadInfo(Drop(last.item.data, 4)).ok
             THEN /\ After.state = "recv"
                  /\ After.info = ReadInfo(Drop(last.item.data, 4)).info
                  /\ Len(After.sent) = 1 /\ Len(After.delivered) = 1
             ELSE /\ After.state = "recvInfoPkt"
                  /\ After.sent = <<>> /\ After.delivered = <<>>

C8_Witness ==
    /\ last.op = "recv" /\ last.role = "server"
    /\ Before.state = "recvInfoPkt"
    /\ Before.errors = <<"Waiting info packet">>
    /\ After.state = "recv"
    /\ After.info = [userName |-> <<65>>]
    /\ Len(After.sent) = 1

\* C19: generateKeys computes preMasterSecret = clientRandom[:24] ||
\* serverRandom[:24], masterSecret as the A/BB/CCC salted hashes of it,
\* sessionKey as the X/YY/ZZZ salted hashes of masterSecret, macKey128 =
\* sessionKey[0:16], and returns as initial decryption and encryption keys
\* finalHash(sessionKey[16:32], ...) and finalHash(sessionKey[32:48], ...),
\* each truncated or extended to the negotiated key length
FitKey(key, bits) ==
    [i \in 1..(bits \div 8) |-> IF i <= Len(key) THEN key[i] ELSE 0]
C19_GenerateKeys ==
    (last.op = "connect" /\ last.role = "client"
       /\ sec["client"].enableEncryption /\ last.keyLength # 0) =>
       LET self == sec["client"]
           preMasterSecret == Take(self.clientRandom, 24)
                              \o Take(self.serverRandom, 24)
           masterSecret ==
              saltedHash(<<65>>, preMasterSecret, self.clientRandom,
                         self.serverRandom)
              \o saltedHash(<<66, 66>>, preMasterSecret, self.clientRandom,
                            self.serverRandom)
              \o saltedHash(<<67, 67, 67>>, preMasterSecret,
                            self.clientRandom, self.serverRandom)
           sessionKey ==
              saltedHash(<<88>>, masterSecret, self.clientRandom,
                         self.serverRandom)
              \o saltedHash(<<89, 89>>, masterSecret, self.clientRandom,
                            self.serverRandom)
              \o saltedHash(<<90, 90, 90>>, masterSecret, self.clientRandom,
                            self.serverRandom)
       IN /\ self.sessionKey = sessionKey
          /\ self.macKey128 = SubSeq(sessionKey, 1, 16)
          /\ self.decrypt =
                FitKey(finalHash(SubSeq(sessionKey, 17, 32),
                                 self.clientRandom, self.serverRandom),
                       last.keyLength)
          /\ self.encrypt =
                FitKey(finalHash(SubSeq(sessionKey, 33, 48),
                                 self.clientRandom, self.serverRandom),
                       last.keyLength)

InitStream ==
    /\ MITMInit
    /\ SecIdle
    /\ \E clientRandom \in ClientRandoms, serverRandom \in ServerRandoms :
          stream = NewStream(clientRandom, serverRandom)
    /\ qt = NewQRemoteDesktop
    /\ link = NoLink

StreamNext ==
    \/ StreamWrite
    \/ StreamRead

SpecStream == InitStream /\ [][StreamNext]_vars

\* C20: each direction's RC4 stream is rekeyed after every 4096 packets: no
\* more than 4096 consecutive packets are encrypted, or decrypted, under one
\* RC4 key
C20_RekeyEvery4096 ==
    /\ stream.encrypted <= RekeyInterval
    /\ stream.decrypted <= RekeyInterval

\* C21: the two RC4 streams are independent: sending a payload (slow path
\* or fast path) leaves the decrypt stream as it was and, when encryption is
\* enabled, moves the encrypt stream on over the payload; receiving leaves
\* the encrypt stream as it was and, for an encrypted payload, moves the
\* decrypt stream on over it; and connect() starts the two streams from the
\* two different initial keys
C21_IndependentStreams ==
    /\ last.op \in {"send", "sendFastPath"} =>
          /\ After.decryptRc4 = Before.decryptRc4
          /\ After.encryptRc4 =
                IF Before.enableEncryption
                THEN crypt(Before.encryptRc4, last.item.data).key
                ELSE Before.encryptRc4
    /\ last.op = "recv" => After.encryptRc4 = Before.encryptRc4
    /\ (last.op = "recv" /\ LastFlaggedEncrypted) =>
          After.decryptRc4 =
             crypt(Before.decryptRc4, Drop(LastBody, SignatureLen)).key
    /\ (last.op = "connect" /\ last.role = "client"
          /\ After.enableEncryption) =>
          /\ After.decrypt # After.encrypt
          /\ After.decryptRc4 = RC4Key(After.decrypt)
          /\ After.encryptRc4 =
                crypt(RC4Key(After.encrypt), WriteInfo(After.info)).key
C21_Witness ==
    /\ last.op = "recv" /\ LastFlaggedEncrypted
    /\ After.decryptRc4 # Before.decryptRc4
    /\ After.decryptRc4 # RC4Key(After.decrypt)
    /\ After.encryptRc4 # RC4Key(After.encrypt)
    /\ Len(After.sent) > 2

\* C22: with encryption enabled every fast-path PDU sent carries
\* FASTPATH_OUTPUT_ENCRYPTED and the payload signed and encrypted as on the
\* slow path (the first 8 bytes of the MAC of the payload, then its RC4
\* encryption); with encryption disabled flags and payload go out
\* unchanged. A fast-path payload received is decrypted and checked against
\* its MAC if and only if encryption is enabled and the flag is set;
\* otherwise it is handed on as it came
C22_FastPath ==
    /\ last.op = "sendFastPath" =>
          /\ Len(After.sent) = Len(Before.sent) + 1
          /\ Pdu(Last(After.sent)) =
                IF Before.enableEncryption
                THEN [path |-> "fast",
                      secFlag |-> SetFlag(last.item.secFlag,
                                          FASTPATH_OUTPUT_ENCRYPTED),
                      data |-> Take(macData(Before.macKey128,
                                            last.item.data), 8)
                               \o crypt(Before.encryptRc4,
                                        last.item.data).out]
                ELSE [path |-> "fast", secFlag |-> last.item.secFlag,
                      data |-> last.item.data]
    /\ LastRecvFast =>
          IF Before.enableEncryption
             /\ HasFlag(last.item.secFlag, FASTPATH_OUTPUT_ENCRYPTED)
          THEN /\ After.decryptRc4 =
                     crypt(Before.decryptRc4,
                           Drop(last.item.data, SignatureLen)).key
               /\ IF LastMacMatches
                  THEN After.delivered =
                          Append(Before.delivered,
                                 [kind |-> "recvFastPath",
                                  secFlag |-> last.item.secFlag,
                                  data |-> LastDecrypted,
                                  at |-> Clock(Before)])
                  ELSE After.delivered = Before.delivered
          ELSE /\ After.decryptRc4 = Before.decryptRc4
               /\ After.delivered =
                     Append(Before.delivered,
                            [kind |-> "recvFastPath",
                             secFlag |-> last.item.secFlag,
                             data |-> last.item.data,
                             at |-> Clock(Before)])
C22_Witness ==
    /\ LastRecvFast /\ LastFlaggedEncrypted /\ LastMacMatches
    /\ Len(After.delivered) = Len(Before.delivered) + 1
    /\ \E k \in 1..Len(Before.sent) :
          /\ Before.sent[k].path = "fast"
          /\ HasFlag(Before.sent[k].secFlag, FASTPATH_OUTPUT_ENCRYPTED)

\* C24: when TLS is not selected (serverSelectedProtocol 0) and the
\* encryptionMethod of the server is 0, the client layer sends no Security
\* Exchange and encrypts and signs nothing: encryption stays disabled and
\* the Client Info goes out in the clear, flagged SEC_INFO_PKT alone
C24_NoEncryptionMethod ==
    (last.op = "connect" /\ last.role = "client"
       /\ last.item.secFlag = 0 /\ last.encryptionMethod = 0) =>
       /\ ~After.enableEncryption
       /\ \A k \in 1..Len(After.sent) :
             ~HasFlag(ReadUInt16Le(After.sent[k].data), SEC_EXCHANGE_PKT)
       /\ Pdu(Last(After.sent)) =
             [path |-> "slow", secFlag |-> 0,
              data |-> Header(SEC_INFO_PKT) \o WriteInfo(After.info)]

InitQt ==
    /\ MITMInit
    /\ SecIdle
    /\ stream = NoStream
    /\ qt = NewQRemoteDesktop
    /\ link = NoLink

QtNext ==
    \/ NotifyImage
    \/ PaintEvent

SpecQt == InitQt /\ [][QtNext]_vars

\* C27: notifyImage queues the images in arrival order and paintEvent draws
\* the queued images in that order; after a paintEvent the refresh queue is
\* empty, so that every notified image is drawn by at most one paintEvent
\* (by exactly one once a paintEvent has followed its notification), and
\* the queue does not grow across paints
DrawsOf(n) == {i \in 1..Len(qt.drawn) : qt.drawn[i].image.n = n}
C27_PaintDrainsQueue ==
    /\ \A k \in 1..Len(qt.refresh) : qt.refresh[k].n > 0
    /\ \A k \in 1..(Len(qt.refresh) - 1) :
          qt.refresh[k].n < qt.refresh[k + 1].n
    /\ \A i \in 1..(Len(qt.drawn) - 1) :
          qt.drawn[i].paint = qt.drawn[i + 1].paint =>
             qt.drawn[i].image.n < qt.drawn[i + 1].image.n
    /\ qt.lastOp = "paintEvent" => qt.refresh = <<>>
    /\ \A n \in 1..qt.notified : Cardinality(DrawsOf(n)) <= 1
    /\ \A n \in 1..qt.notified :
          Cardinality(DrawsOf(n)) + Cardinality({k \in 1..Len(qt.refresh) :
                                                   qt.refresh[k].n = n}) = 1

\* C29: in one session at most one Security Exchange is sent to the target
\* and the slow-path I/O layer carries at most one MITM observer, also when
\* the join of the I/O channel is confirmed, and its channel built, more
\* than once
C29_OneSecurityExchange ==
    /\ Cardinality({i \in 1..Len(Events) :
           Events[i].op = "securityLayer.sendSecurityExchange"}) <= 1
    /\ client.ioObservers <= 1

\* the I/O channel has been built: its slow-path observer is registered
IOBuilt(self) ==
    \E c \in DOMAIN self.channelObservers :
       self.channelObservers[c] = "slowPath"

\* C30: a Client Info event of the victim (the step that leaves the channel
\* joins for the licensing phase, or fails) sends the Client Info through
\* the security layer of the I/O channel when that channel has been built,
\* and nothing else; before the I/O channel is built it raises, nothing is
\* sent to the target and no field of the client changes
C30_ClientInfoNeedsIOChannel ==
    [][(phase = "JoinChannels" /\ phase' \in {"Failed", "AwaitLicense"}) =>
          IF IOBuilt(client)
          THEN /\ NewEvents(client, client') =
                     <<Ev("securityLayer.sendClientInfo", 0)>>
               /\ client.securityLayer.kind # "None"
               /\ ~Raised(client, client')
               /\ phase' = "AwaitLicense"
          ELSE /\ client'.events = client.events
               /\ Raised(client, client')
               /\ [client' EXCEPT !.errors = client.errors] = client
               /\ channels' = channels /\ tcp' = tcp
               /\ phase' = "Failed"]_vars

\* the victim's Client Info has arrived with the I/O channel not built (its
\* join was refused): the handler failed and nothing went to the target
C30_Witness ==
    /\ phase = "Failed"
    /\ client.serverData.present
    /\ HasEventOn("mcs.recv(ChannelJoinRefused)", IOChannel)
    /\ ~IOBuilt(client)
    /\ client.errors # <<>>
    /\ client.errors[Len(client.errors)] = "AttributeError"
    /\ ~HasEvent("securityLayer.sendClientInfo")

(***************************************************************************)
(* The two security layers back to back.                                   *)
(***************************************************************************)
InitPair ==
    /\ MITMInit
    /\ roles = Roles
    /\ \E i \in Infos \cup {NewSecLayer.info} :
          sec = [r \in Roles |->
                    IF r = "client" THEN [NewSecLayer EXCEPT !.info = i]
                    ELSE NewSecLayer]
    /\ connected = {}
    /\ peer = NewPeer
    /\ plainSent = <<>>
    /\ last = NoLast
    /\ nPdu = 0
    /\ stream = NoStream
    /\ qt = NewQRemoteDesktop
    /\ link = NoLink

PairNext ==
    \/ SecClientConnect
    \/ SecServerConnect
    \/ DeliverToServer
    \/ DeliverToClient
    \/ LayerSend
    \/ LayerSendFastPath

SpecPair == InitPair /\ [][PairNext]_vars

\* everything either layer has sent has reached the other
PairQuiet ==
    /\ connected = Roles
    /\ link.toServer = Len(sec["client"].sent)
    /\ link.toClient = Len(sec["server"].sent)

\* both layers have connected their presentation layers and the Server
\* holds the Info structure of the Client
PairConnected ==
    /\ PresentationConnected("client")
    /\ PresentationConnected("server")
    /\ sec["server"].info = sec["client"].info

\* C28: a Client and a Server layer back to back with standard RDP security
\* selected (the Client has enabled encryption): once everything either has
\* sent has reached the other, both have connected their presentation layers
\* and the Info structure the Server parsed equals the one the Client sent
C28_BackToBack ==
    (PairQuiet /\ sec["client"].enableEncryption) => PairConnected

\* the same without standard RDP security
PairConnectsInTheClear ==
    (PairQuiet /\ ~sec["client"].enableEncryption) => PairConnected


=============================================================================
